---- MODULE Spec2Model ----
(***************************************************************************)
(* A model of readlib.py: the feed adapter, the date filter, the prompt    *)
(* composition and summarization calls, and the __main__ pipeline.         *)
(*                                                                         *)
(* Time is counted in hours.  A feedparser time struct is the pair         *)
(* <<day, hour>> (feedparser yields UTC tuples whose tm_isdst is 0); the   *)
(* empty tuple <<>> is a present but empty field.  A feed entry is a       *)
(* function from the keys it has to their values, so a missing key is a    *)
(* key outside its DOMAIN.  Text is a sequence of chunks; the chunk "{}"   *)
(* is a replacement field.                                                 *)
(***************************************************************************)
EXTENDS Integers, Sequences, FiniteSets, TLC

VARIABLES
    dst,                \* the local zone is in daylight-saving time (environment)
    api_key,            \* GOOGLE_API_KEY as read at load time: "absent" or "present"
    client,             \* the module-level name client: "undefined" or "defined"
    stdout,             \* the lines printed so far
    articles,           \* filter_articles_by_date_range: argument
    start_date,         \* filter_articles_by_date_range: argument
    end_date,           \* filter_articles_by_date_range: argument
    filtered_articles,  \* filter_articles_by_date_range: returned list
    fraised,            \* filter_articles_by_date_range: an exception left the call
    fpc,                \* "idle", "call" before the filter has run, "returned" after
    feed,               \* what feedparser.parse does for the current feed_url
    all_entries,        \* the value get_articles_from_rss returned
    graised,            \* get_articles_from_rss: an exception left the call
    gpc,                \* "idle", "call" before the fetch has run, "returned" after
    scall,              \* the summarization call made: its name and argument
    submitted,          \* the contents handed to the backend
    soutcome,           \* how the summarization call ended
    ncalls,             \* how often each summarization function was invoked
    mpc,                \* __main__: "idle", "loop", "done" or "aborted"
    src_i,              \* __main__: index of the next item of target_feeds
    today,              \* __main__: datetime.date.today()
    all_new_articles,   \* __main__: the accumulated articles
    listing             \* __main__: the enumerated lines printed by the report

envvars == <<dst, api_key, client, stdout>>
fvars == <<articles, start_date, end_date, filtered_articles, fraised, fpc>>
gvars == <<feed, all_entries, graised, gpc>>
svars == <<scall, submitted, soutcome, ncalls>>
mvars == <<mpc, src_i, today, all_new_articles, listing>>
vars == <<envvars, fvars, gvars, svars, mvars>>

-----------------------------------------------------------------------------
(* Bounds and input sets *)

MaxArticles == 2

Days == 0..2
Hours == {0, 23}
Structs == {<<d, h>> : d \in Days, h \in Hours}
Windows == {<<0, 2>>, <<1, 1>>, <<0, 0>>, <<2, 0>>}

PublishedValues == {<<>>} \cup Structs
UpdatedValues == {<<>>, <<1, 0>>}

Entries ==
    LET Ttl == {<<>>, ("title" :> "T")}
        Pub == {<<>>} \cup {("published_parsed" :> v) : v \in PublishedValues}
        Upd == {<<>>} \cup {("updated_parsed" :> v) : v \in UpdatedValues}
    IN  {t @@ p @@ u : t \in Ttl, p \in Pub, u \in Upd}

SeqsUpTo(S, n) == UNION {[1..k -> S] : k \in 0..n}

-----------------------------------------------------------------------------
(* Python helpers *)

hasattr(entry, key) == key \in DOMAIN entry

get(entry, key, default) == IF key \in DOMAIN entry THEN entry[key] ELSE default

truthy(v) == v # <<>>

(* time.mktime reads the tuple as local standard time *)
mktime(t) == t[1] * 24 + t[2]

(* datetime.fromtimestamp renders the local wall clock *)
fromtimestamp(secs) == IF dst THEN secs + 1 ELSE secs

date(dt) == dt \div 24

-----------------------------------------------------------------------------
(* filter_articles_by_date_range, lines 75-121 *)

(* updated_parsed consulted before published_parsed *)
date_struct_updated_first(entry) ==
    IF hasattr(entry, "updated_parsed") /\ truthy(entry["updated_parsed"])
    THEN entry["updated_parsed"]
    ELSE IF hasattr(entry, "published_parsed") /\ truthy(entry["published_parsed"])
         THEN entry["published_parsed"]
         ELSE <<>>

date_struct(entry) ==
    IF hasattr(entry, "published_parsed") /\ truthy(entry["published_parsed"])
    THEN entry["published_parsed"]
    ELSE IF hasattr(entry, "updated_parsed") /\ truthy(entry["updated_parsed"])
         THEN entry["updated_parsed"]
         ELSE <<>>

ArticleDict(entry, published_datetime) ==
    [title |-> get(entry, "title", "No title"),
     url |-> get(entry, "link", "No link"),
     published_datetime |-> published_datetime,
     source |-> get(entry, "source", "Unknown source"),
     summary |-> get(entry, "summary", "No summary"),
     content |-> get(entry, "content", <<>>),
     keywords |-> get(entry, "tags", <<>>)]

(* the start of the window left out *)
InRange_after_start(lo, d, hi) == lo < d /\ d <= hi

InRange(lo, d, hi) == lo <= d /\ d <= hi

(* the conversion entered without the test of line 106 *)
found_untested(ds) == TRUE

(* line 106: only a found date structure is converted *)
found(ds) == truthy(ds)

(* line 108; time.mktime raises TypeError on anything but a time tuple *)
mktime_raises(ds) == ds = <<>>

RECURSIVE FilterLoop(_, _, _, _, _)
FilterLoop(as, i, s, e, acc) ==
    IF i > Len(as) THEN [raised |-> FALSE, value |-> acc]
    ELSE LET entry == as[i]
             ds == date_struct(entry)
         IN  IF found(ds)
             THEN IF mktime_raises(ds)
                  THEN [raised |-> TRUE, value |-> <<>>]
                  ELSE LET published_datetime == fromtimestamp(mktime(ds))
                       IN  IF InRange(s, date(published_datetime), e)
                           THEN FilterLoop(as, i + 1, s, e,
                                    Append(acc, ArticleDict(entry, published_datetime)))
                           ELSE FilterLoop(as, i + 1, s, e, acc)
             ELSE FilterLoop(as, i + 1, s, e, acc)

filter_articles_by_date_range(as, s, e) == FilterLoop(as, 1, s, e, <<>>)

(* get_articles_from_rss *)

BozoWarning == "Warning: Feed is not well-formed"
FetchError == "An unexpected error occurred while fetching"

(* the body of the try block, lines 61-69; exc: an exception left the block *)
rss_try(f) ==
    IF f.kind = "raise"
    THEN [exc |-> TRUE, value |-> <<>>, out |-> <<>>]
    ELSE [exc |-> FALSE,
          value |-> f.entries,
          out |-> IF f.kind = "bozo" THEN <<BozoWarning>> ELSE <<>>]

(* the body without its except clause *)
get_articles_from_rss_unguarded(f) ==
    LET t == rss_try(f)
    IN  [raised |-> t.exc, value |-> t.value, out |-> t.out]

get_articles_from_rss(f) ==
    LET t == rss_try(f)
    IN  IF t.exc
        THEN [raised |-> FALSE, value |-> <<>>, out |-> <<FetchError>>]
        ELSE [raised |-> FALSE, value |-> t.value, out |-> t.out]

-----------------------------------------------------------------------------
(* module-level client initialization *)

KeyWarning == "Warning: GOOGLE_API_KEY environment variable not set. Summarization will be skipped."
ClientError == "Error initializing Gemini client. Summarization will be skipped."

module_load(key, client_raises) ==
    IF key = "absent"
    THEN [client |-> "undefined", out |-> <<KeyWarning>>]
    ELSE IF client_raises
         THEN [client |-> "undefined", out |-> <<ClientError>>]
         ELSE [client |-> "defined", out |-> <<>>]

-----------------------------------------------------------------------------
(* prompt, prompt2 and the summarization functions *)

prompt ==
    << "You are a helpful assistant that summarizes scientific articles. Here are the latest articles from a feed source:",
       "{}",
       "In a few sentences, answer the following questions:What type of article is this?What research area is this research about?what is the most important message of this publication?What applications does this research have?" >>

prompt2 ==
    << "You are a helpful assistant that summarizes scientific articles. Here are many summaries of a collection of articles.",
       "{}",
       "In a few sentences and concise language, describe the major themes of these articles.Provide links to a few important articles in [[number]](url)] style.The links should be integrated into the text, not listed separately." >>

RECURSIVE FormatFrom(_, _, _)
FormatFrom(template, i, arg) ==
    IF i > Len(template) THEN <<>>
    ELSE (IF template[i] = "{}" THEN arg ELSE <<template[i]>>)
             \o FormatFrom(template, i + 1, arg)

(* str.format with one positional argument *)
format(template, arg) == FormatFrom(template, 1, arg)

RECURSIVE JoinFrom(_, _, _)
JoinFrom(sep, list, i) ==
    IF i > Len(list) THEN <<>>
    ELSE IF i = Len(list) THEN list[i]
         ELSE list[i] \o <<sep>> \o JoinFrom(sep, list, i + 1)

(* the separator put behind every element *)
join_trailing(sep, list) ==
    IF list = <<>> THEN <<>> ELSE JoinFrom(sep, list, 1) \o <<sep>>

(* sep.join(list) *)
join(sep, list) == JoinFrom(sep, list, 1)

NoCall == [name |-> "none", arg |-> <<>>]
NoOutcome == [kind |-> "none", exc |-> "", text |-> <<>>]
Raised(exc) == [kind |-> "raised", exc |-> exc, text |-> <<>>]
Returned(text) == [kind |-> "returned", exc |-> "", text |-> text]

(* client.models.generate_content(model = model_name, contents = ...):
   client is looked up before contents is composed *)
generate_content(cl, contents, response) ==
    IF cl = "undefined"
    THEN [outcome |-> Raised("NameError"), sent |-> FALSE]
    ELSE IF response.kind = "raise"
         THEN [outcome |-> Raised("APIError"), sent |-> TRUE]
         ELSE [outcome |-> Returned(response.text), sent |-> TRUE]

summarize_article(cl, article_entry, response) ==
    [contents |-> format(prompt, article_entry),
     result |-> generate_content(cl, format(prompt, article_entry), response)]

analyze_article_collection(cl, articles_summaries, response) ==
    LET summaries == join("\n\n\n", articles_summaries)
    IN  [contents |-> format(prompt2, summaries),
         result |-> generate_content(cl, format(prompt2, summaries), response)]

-----------------------------------------------------------------------------
(* __main__ *)

NumFeeds == 2
FilterParams == 3
MainFilterArgs == 4

ProcessingLine == "--- Processing feed ---"
FoundLine == "Found new articles from this week."
NoneThisWeekLine == "No new articles found for this week."
DashLine == "--------------------"
TotalLine == "--- Found a total of new articles from this week ---"
NoNewArticlesLine == "No new articles found in Nature or Science from the past week."

(* a call of filter_articles_by_date_range with nargs positional arguments *)
call_filter(nargs, as, s, e) ==
    IF nargs # FilterParams
    THEN [raised |-> TRUE, value |-> <<>>]
    ELSE filter_articles_by_date_range(as, s, e)

(* x goes before the elements of equal key *)
RECURSIVE insert_desc_ties_first(_, _)
insert_desc_ties_first(sorted, x) ==
    IF sorted = <<>> THEN <<x>>
    ELSE IF sorted[1].published_datetime > x.published_datetime
         THEN <<sorted[1]>> \o insert_desc_ties_first(Tail(sorted), x)
         ELSE <<x>> \o sorted

(* list.sort(key = published_datetime, reverse = True): x goes behind every
   element whose key is not smaller *)
RECURSIVE insert_desc(_, _)
insert_desc(sorted, x) ==
    IF sorted = <<>> THEN <<x>>
    ELSE IF sorted[1].published_datetime >= x.published_datetime
         THEN <<sorted[1]>> \o insert_desc(Tail(sorted), x)
         ELSE <<x>> \o sorted

RECURSIVE SortFrom(_, _, _)
SortFrom(list, i, acc) ==
    IF i > Len(list) THEN acc
    ELSE SortFrom(list, i + 1, insert_desc(acc, list[i]))

sort_newest_first(list) == SortFrom(list, 1, <<>>)

ListingLine(i, article) ==
    [i |-> i,
     title |-> article.title,
     source |-> article.source,
     pub_date |-> date(article.published_datetime),
     url |-> article.url]

-----------------------------------------------------------------------------
(* Bounds and input sets of the other operations *)

MaxEntries == 2
MaxText == 2
MaxSummaries == 2
MaxListed == 3

FeedEntries == {e \in Entries : "title" \in DOMAIN e /\ "updated_parsed" \notin DOMAIN e}

Feeds ==
    {[kind |-> k, entries |-> es] : k \in {"ok", "bozo"}, es \in SeqsUpTo(FeedEntries, MaxEntries)}
        \cup {[kind |-> "raise", entries |-> <<>>]}

NoFeed == [kind |-> "none", entries |-> <<>>]

Texts == SeqsUpTo({"a", "{}"}, MaxText)

Responses ==
    {[kind |-> "raise", text |-> <<>>], [kind |-> "ok", text |-> <<>>], [kind |-> "ok", text |-> <<"r">>]}

Listed ==
    {ArticleDict(("title" :> t), dt) : t \in {"A", "B", "C"}, dt \in {0, 23, 24}}

-----------------------------------------------------------------------------
(* States in which a part of the program is not in use *)

EnvIdle == dst = FALSE /\ api_key = "absent" /\ client = "undefined" /\ stdout = <<>>

FilterIdle ==
    /\ articles = <<>> /\ start_date = 0 /\ end_date = 0
    /\ filtered_articles = <<>> /\ fraised = FALSE /\ fpc = "idle"

FetchIdle == feed = NoFeed /\ all_entries = <<>> /\ graised = FALSE /\ gpc = "idle"

SummIdle ==
    /\ scall = NoCall /\ submitted = <<>> /\ soutcome = NoOutcome
    /\ ncalls = [summarize_article |-> 0, analyze_article_collection |-> 0]

MainIdle ==
    /\ mpc = "idle" /\ src_i = 0 /\ today = 0
    /\ all_new_articles = <<>> /\ listing = <<>>

(* the state the module-level code of lines 30-45 leaves behind *)
Loaded ==
    \E key \in {"absent", "present"}, client_raises \in BOOLEAN :
        LET r == module_load(key, client_raises)
        IN  api_key = key /\ client = r.client /\ stdout = r.out

-----------------------------------------------------------------------------
(* filter_articles_by_date_range applied to bounded inputs *)

FilterInit ==
    /\ dst \in BOOLEAN
    /\ api_key = "absent" /\ client = "undefined" /\ stdout = <<>>
    /\ articles \in SeqsUpTo(Entries, MaxArticles)
    /\ \E w \in Windows : start_date = w[1] /\ end_date = w[2]
    /\ filtered_articles = <<>>
    /\ fraised = FALSE
    /\ fpc = "call"
    /\ FetchIdle /\ SummIdle /\ MainIdle

FilterCall ==
    /\ fpc = "call"
    /\ LET r == filter_articles_by_date_range(articles, start_date, end_date)
       IN  filtered_articles' = r.value /\ fraised' = r.raised
    /\ fpc' = "returned"
    /\ UNCHANGED <<articles, start_date, end_date>>
    /\ UNCHANGED <<envvars, gvars, svars, mvars>>

FilterSpec == FilterInit /\ [][FilterCall]_vars

-----------------------------------------------------------------------------
(* get_articles_from_rss applied to bounded feeds *)

FetchInit ==
    /\ EnvIdle
    /\ feed \in Feeds
    /\ all_entries = <<>> /\ graised = FALSE /\ gpc = "call"
    /\ FilterIdle /\ SummIdle /\ MainIdle

FetchCall ==
    /\ gpc = "call"
    /\ LET r == get_articles_from_rss(feed)
       IN  /\ all_entries' = r.value
           /\ graised' = r.raised
           /\ stdout' = stdout \o r.out
    /\ gpc' = "returned"
    /\ UNCHANGED <<dst, api_key, client, feed>>
    /\ UNCHANGED <<fvars, svars, mvars>>

FetchSpec == FetchInit /\ [][FetchCall]_vars

-----------------------------------------------------------------------------
(* the summarization functions called by a user of the loaded module *)

SummInit ==
    /\ dst = FALSE
    /\ Loaded
    /\ scall \in {[name |-> "summarize_article", arg |-> <<t>>] : t \in Texts}
            \cup {[name |-> "analyze_article_collection", arg |-> l] :
                      l \in SeqsUpTo(Texts, MaxSummaries)}
    /\ submitted = <<>> /\ soutcome = NoOutcome
    /\ ncalls = [summarize_article |-> 0, analyze_article_collection |-> 0]
    /\ FilterIdle /\ FetchIdle /\ MainIdle

SummarizeArticle ==
    \E response \in Responses :
        /\ scall.name = "summarize_article"
        /\ soutcome.kind = "none"
        /\ LET r == summarize_article(client, scall.arg[1], response)
           IN  /\ submitted' = IF r.result.sent THEN r.contents ELSE submitted
               /\ soutcome' = r.result.outcome
        /\ ncalls' = [ncalls EXCEPT !.summarize_article = @ + 1]
        /\ UNCHANGED <<envvars, fvars, gvars, mvars, scall>>

AnalyzeArticleCollection ==
    \E response \in Responses :
        /\ scall.name = "analyze_article_collection"
        /\ soutcome.kind = "none"
        /\ LET r == analyze_article_collection(client, scall.arg, response)
           IN  /\ submitted' = IF r.result.sent THEN r.contents ELSE submitted
               /\ soutcome' = r.result.outcome
        /\ ncalls' = [ncalls EXCEPT !.analyze_article_collection = @ + 1]
        /\ UNCHANGED <<envvars, fvars, gvars, mvars, scall>>

SummNext == SummarizeArticle \/ AnalyzeArticleCollection

SummSpec == SummInit /\ [][SummNext]_vars

-----------------------------------------------------------------------------
(* the __main__ run *)

one_day_ago == today - 7

MainInit ==
    /\ dst \in BOOLEAN
    /\ Loaded
    /\ FilterIdle /\ FetchIdle /\ SummIdle
    /\ mpc = "loop" /\ src_i = 1
    /\ today \in Days
    /\ all_new_articles = <<>> /\ listing = <<>>

(* one iteration of the loop of lines 213-230 *)
ProcessFeed ==
    \E f \in Feeds :
        /\ mpc = "loop"
        /\ src_i <= NumFeeds
        /\ feed' = f
        /\ LET g == get_articles_from_rss(f)
               r == call_filter(MainFilterArgs, g.value, one_day_ago, today)
               todays_articles == r.value
           IN  /\ all_entries' = g.value
               /\ graised' = g.raised
               /\ IF g.value = <<>>
                  THEN /\ stdout' = stdout \o <<ProcessingLine>> \o g.out \o <<DashLine>>
                       /\ UNCHANGED <<all_new_articles, mpc>>
                       /\ src_i' = src_i + 1
                  ELSE IF r.raised
                       THEN /\ stdout' = stdout \o <<ProcessingLine>> \o g.out
                            /\ mpc' = "aborted"
                            /\ UNCHANGED <<all_new_articles, src_i>>
                       ELSE /\ stdout' = stdout \o <<ProcessingLine>> \o g.out
                                \o <<IF todays_articles # <<>> THEN FoundLine
                                     ELSE NoneThisWeekLine>>
                                \o <<DashLine>>
                            /\ all_new_articles' = all_new_articles \o todays_articles
                            /\ src_i' = src_i + 1
                            /\ UNCHANGED mpc
        /\ UNCHANGED <<dst, api_key, client, gpc, today, listing>>
        /\ UNCHANGED <<fvars, svars>>

(* lines 232-244 *)
Report ==
    /\ mpc = "loop"
    /\ src_i > NumFeeds
    /\ IF all_new_articles # <<>>
       THEN LET sorted == sort_newest_first(all_new_articles)
            IN  /\ all_new_articles' = sorted
                /\ stdout' = stdout \o <<TotalLine>>
                /\ listing' = [i \in 1..Len(sorted) |-> ListingLine(i, sorted[i])]
       ELSE /\ stdout' = stdout \o <<NoNewArticlesLine>>
            /\ UNCHANGED <<all_new_articles, listing>>
    /\ mpc' = "done"
    /\ UNCHANGED <<dst, api_key, client, src_i, today>>
    /\ UNCHANGED <<fvars, gvars, svars>>

MainNext == ProcessFeed \/ Report

MainSpec == MainInit /\ [][MainNext]_vars

(* the report stage applied to bounded accumulated lists *)
ReportInit ==
    /\ dst = FALSE
    /\ Loaded
    /\ FilterIdle /\ FetchIdle /\ SummIdle
    /\ mpc = "loop" /\ src_i = NumFeeds + 1
    /\ today \in Days
    /\ all_new_articles \in SeqsUpTo(Listed, MaxListed)
    /\ listing = <<>>

ReportSpec == ReportInit /\ [][Report]_vars

-----------------------------------------------------------------------------
(* Properties of filter_articles_by_date_range *)

LocalDate(ts) == date(fromtimestamp(mktime(ts)))

(* C1: the result is exactly the subsequence of the input, in input order and
   each entry once, of the entries whose resolved timestamp, taken as a local
   calendar date, lies in [start_date, end_date], both ends included. *)
C1_ExactSubsequence ==
    fpc = "returned" =>
        LET Keep(entry) ==
                /\ date_struct(entry) # <<>>
                /\ start_date <= LocalDate(date_struct(entry))
                /\ LocalDate(date_struct(entry)) <= end_date
            sel == SelectSeq(articles, Keep)
        IN  /\ Len(filtered_articles) = Len(sel)
            /\ \A k \in 1..Len(sel) :
                   filtered_articles[k] =
                       ArticleDict(sel[k], fromtimestamp(mktime(date_struct(sel[k]))))

C1_Witness ==
    /\ fpc = "returned"
    /\ Len(articles) = 2
    /\ Len(filtered_articles) = 1
    /\ start_date < end_date
    /\ \E i \in 1..2 :
          /\ date_struct(articles[i]) # <<>>
          /\ LocalDate(date_struct(articles[i])) = end_date
          /\ filtered_articles[1].published_datetime \div 24 = end_date
    /\ \E j \in 1..2 :
          /\ date_struct(articles[j]) # <<>>
          /\ LocalDate(date_struct(articles[j])) > end_date

Undated(entry) ==
    /\ ~("published_parsed" \in DOMAIN entry /\ entry["published_parsed"] # <<>>)
    /\ ~("updated_parsed" \in DOMAIN entry /\ entry["updated_parsed"] # <<>>)

(* C2: entries with neither a non-empty published_parsed nor a non-empty
   updated_parsed add nothing to the result and raise no error, and the other
   entries of the input are processed as if the undated ones were not there. *)
C2_UndatedOmitted ==
    fpc = "returned" =>
        LET Dated(entry) == ~Undated(entry)
            rest == SelectSeq(articles, Dated)
        IN  /\ ~fraised
            /\ Len(filtered_articles) <= Len(rest)
            /\ filtered_articles =
                   filter_articles_by_date_range(rest, start_date, end_date).value

C2_Witness ==
    /\ fpc = "returned"
    /\ ~fraised
    /\ Len(articles) = 2
    /\ Undated(articles[1])
    /\ "updated_parsed" \in DOMAIN articles[1]
    /\ ~Undated(articles[2])
    /\ Len(filtered_articles) = 1

(* C3: the timestamp of an entry is published_parsed when that field is present
   and non-empty and updated_parsed otherwise; the result holds, in input order,
   the converted timestamps so chosen that fall in the window. *)
C3_PublishedFirst ==
    fpc = "returned" =>
        LET Ts(entry) ==
                IF "published_parsed" \in DOMAIN entry /\ entry["published_parsed"] # <<>>
                THEN entry["published_parsed"]
                ELSE IF "updated_parsed" \in DOMAIN entry
                     THEN entry["updated_parsed"]
                     ELSE <<>>
            Keep(entry) ==
                /\ Ts(entry) # <<>>
                /\ start_date <= LocalDate(Ts(entry))
                /\ LocalDate(Ts(entry)) <= end_date
            sel == SelectSeq(articles, Keep)
        IN  /\ Len(filtered_articles) = Len(sel)
            /\ \A k \in 1..Len(sel) :
                   filtered_articles[k].published_datetime =
                       fromtimestamp(mktime(Ts(sel[k])))

C3_Witness ==
    /\ fpc = "returned"
    /\ Len(articles) = 2
    /\ "published_parsed" \notin DOMAIN articles[1]
    /\ "updated_parsed" \in DOMAIN articles[1]
    /\ articles[1]["updated_parsed"] # <<>>
    /\ "published_parsed" \in DOMAIN articles[2]
    /\ "updated_parsed" \in DOMAIN articles[2]
    /\ articles[2]["published_parsed"] # <<>>
    /\ articles[2]["updated_parsed"] # <<>>
    /\ ~InRange(start_date, LocalDate(articles[2]["published_parsed"]), end_date)
    /\ InRange(start_date, LocalDate(articles[2]["updated_parsed"]), end_date)
    /\ Len(filtered_articles) = 1
    /\ filtered_articles[1].published_datetime =
           fromtimestamp(mktime(articles[1]["updated_parsed"]))

-----------------------------------------------------------------------------
(* Properties of get_articles_from_rss *)

(* C5: get_articles_from_rss never lets an exception reach its caller; for a
   feed flagged malformed it prints exactly one warning and returns the entries
   recovered, and when fetching or parsing fails it prints the error and
   returns the empty list. *)
C5_FetchNeverRaises ==
    gpc = "returned" =>
        /\ ~graised
        /\ feed.kind = "bozo" => (all_entries = feed.entries /\ stdout = <<BozoWarning>>)
        /\ feed.kind = "raise" => (all_entries = <<>> /\ stdout = <<FetchError>>)

C5_Witness ==
    /\ gpc = "returned"
    /\ feed.kind = "bozo"
    /\ Len(all_entries) = 2
    /\ Len(stdout) = 1

-----------------------------------------------------------------------------
(* Properties of the summarization functions *)

RECURSIVE JoinedInOrder(_)
JoinedInOrder(list) ==
    IF list = <<>> THEN <<>>
    ELSE IF Len(list) = 1 THEN list[1]
         ELSE JoinedInOrder(SubSeq(list, 1, Len(list) - 1))
                  \o <<"\n\n\n">> \o list[Len(list)]

(* C4: with the credential absent at load time a call of summarize_article or
   analyze_article_collection ends without raising. *)
C4_UnavailableWithoutRaising ==
    (api_key = "absent" /\ soutcome.kind # "none") => soutcome.kind # "raised"

(* C9: what summarize_article submits is the fixed single-article text with the
   article inserted once at the slot, and what analyze_article_collection
   submits is the fixed digest text with the summaries, joined in input order
   by the blank-line separator, inserted once at the slot. *)
C9_PromptInterpolatedOnce ==
    (client = "defined" /\ soutcome.kind # "none") =>
        IF scall.name = "summarize_article"
        THEN submitted = <<prompt[1]>> \o scall.arg[1] \o <<prompt[3]>>
        ELSE submitted = <<prompt2[1]>> \o JoinedInOrder(scall.arg) \o <<prompt2[3]>>

C9_Witness ==
    /\ client = "defined"
    /\ soutcome.kind = "returned"
    /\ scall.name = "analyze_article_collection"
    /\ Len(scall.arg) = 2
    /\ scall.arg[1] = <<"a", "{}">>
    /\ scall.arg[2] = <<"{}">>
    /\ Len(submitted) = 6

-----------------------------------------------------------------------------
(* Properties of the __main__ run *)

Printed(line) == \E k \in 1..Len(stdout) : stdout[k] = line

Ended == mpc \in {"done", "aborted"}

(* the entries of the last fetch that lie in the window of the run *)
InWindowFetched == filter_articles_by_date_range(all_entries, one_day_ago, today).value

(* C6: no source aborts the run. *)
C6_RunNeverAborted == mpc # "aborted"

(* C8: a run in which no article survives filtering ends successfully with the
   line saying that no new articles were found, and a run in which an article
   survives does not print that line. *)
C8_NoNewArticlesReported ==
    Ended =>
        /\ (all_new_articles = <<>> /\ InWindowFetched = <<>>) =>
               (mpc = "done" /\ Printed(NoNewArticlesLine))
        /\ all_new_articles # <<>> => ~Printed(NoNewArticlesLine)

(* C10: a run in which n >= 1 articles lie in the window and the backend is
   available ends with summarize_article invoked n times and
   analyze_article_collection invoked once. *)
C10_SummarizedOncePerArticle ==
    (Ended /\ client = "defined" /\ Len(InWindowFetched) >= 1) =>
        /\ mpc = "done"
        /\ ncalls.summarize_article = Len(InWindowFetched)
        /\ ncalls.analyze_article_collection = 1

-----------------------------------------------------------------------------
(* Properties of the report stage *)

StableNewestFirst(before, after) ==
    /\ Len(after) = Len(before)
    /\ \E p \in [1..Len(before) -> 1..Len(before)] :
          /\ \A k, l \in 1..Len(before) : k # l => p[k] # p[l]
          /\ \A k \in 1..Len(before) : after[k] = before[p[k]]
          /\ \A k, l \in 1..Len(before) :
                k < l =>
                    /\ after[k].published_datetime >= after[l].published_datetime
                    /\ after[k].published_datetime = after[l].published_datetime
                           => p[k] < p[l]

(* C7: the listing is a permutation of the accumulated articles in
   non-increasing order of published_datetime, and articles with equal
   published_datetime keep the order they were accumulated in. *)
C7_ListingStableNewestFirst ==
    [][(mpc = "loop" /\ mpc' = "done" /\ all_new_articles # <<>>) =>
           /\ StableNewestFirst(all_new_articles, all_new_articles')
           /\ Len(listing') = Len(all_new_articles')
           /\ \A k \in 1..Len(listing') :
                 /\ listing'[k].i = k
                 /\ listing'[k].title = all_new_articles'[k].title
                 /\ listing'[k].pub_date = all_new_articles'[k].published_datetime \div 24
      ]_vars

C7_Witness ==
    /\ mpc = "done"
    /\ Len(listing) = 3
    /\ all_new_articles[1].published_datetime = all_new_articles[2].published_datetime
    /\ all_new_articles[1].title = "B"
    /\ all_new_articles[2].title = "A"
    /\ all_new_articles[3].published_datetime < all_new_articles[2].published_datetime
    /\ listing[3].title = "C"

====
